---------------------------- MODULE Spec2Model ----------------------------
(***************************************************************************)
(* The document store facade of src/backend/api/tiddler-store.ts           *)
(* (GlobalTiddlerStore) as a state machine.                                *)
(*                                                                         *)
(* Every facade method is an async function: it runs up to its next await  *)
(* and is resumed when the awaited collaborator answers.  Each such        *)
(* segment is one action, so calls of different clients interleave at the  *)
(* awaits, as they do in the event loop.  The collaborators that are       *)
(* injected (Recipe Resolver, Policy Checker, Persistence, Document        *)
(* Factory) are not part of the source file; their answers are inputs      *)
(* drawn from small sets, and Persistence follows the contract the         *)
(* specification gives for it.                                             *)
(***************************************************************************)
EXTENDS Integers, Sequences, FiniteSets, TLC

(* ------------------------------ bounds -------------------------------- *)

\* Total number of facade calls issued in one behaviour.
MaxCalls == 2

(* ------------------------------ universe ------------------------------ *)

\* The concurrent clients of the facade.
Procs == {1, 2}

Bags == {"A", "B"}

Titles == {"X", "Y"}

\* `title?` omitted.
NoTitle == ""

\* `expectedRevision` omitted (undefined): an unconditional write.
NoRev == -1

FieldNames == {"type", "text", "tags"}

\* A field a document does not have.
NoField == "-"

\* The value a client p writes: opaque, distinct per client.
ValOf(p) == IF p = 1 THEN "v1" ELSE IF p = 2 THEN "v2" ELSE "v3"

EmptyFields == [f \in FieldNames |-> NoField]

\* The stored slot of a (bag, title) that holds no document.
NoDoc == [exists |-> FALSE, value |-> EmptyFields, revision |-> NoRev]

Doc(value, revision) == [exists |-> TRUE, value |-> value, revision |-> revision]

\* A qualified document record {namespace, title, value, revision}.
Rec(bag, title, value, revision) ==
  [bag |-> bag, title |-> title, value |-> value, revision |-> revision]

(* --------------------------- update intents --------------------------- *)

NoIntent ==
  [kind |-> "none", fields |-> EmptyFields, type |-> NoField, expectedRevision |-> NoRev]

UpdateIntent(fields, expected) ==
  [kind |-> "update", fields |-> fields, type |-> NoField, expectedRevision |-> expected]

CreateIntent(type, fields) ==
  [kind |-> "create", fields |-> fields, type |-> type, expectedRevision |-> NoRev]

VARIABLES
  store,    \* Persistence: store[bag][title] is the stored slot
  nextRev,  \* Persistence: the next fresh revision token
  calls,    \* calls[p]: the facade call client p is in, with its locals
  ncalls    \* number of calls issued so far

vars == <<store, nextRev, calls, ncalls>>

(* ----------------- collaborators (outside the source) ----------------- *)

\* shared/model/store getExpectedRevision: the revision an update carries;
\* a create carries none.
getExpectedRevision(updateOrCreate) ==
  IF updateOrCreate.kind = "update" THEN updateOrCreate.expectedRevision ELSE NoRev

\* TiddlerFactory.createTiddler(user, title, type, fields): a brand-new
\* document built from the declared type and the creation fields only.
createTiddler(title, type, fields) ==
  [f \in FieldNames |-> IF f = "type" THEN type ELSE fields[f]]

\* TiddlerPersistence.readDocs([{namespace, title}]): the record, if any.
readDocs(st, bag, title) ==
  IF st[bag][title].exists
    THEN <<Rec(bag, title, st[bag][title].value, st[bag][title].revision)>>
    ELSE <<>>

\* The records of one bag, in a fixed title order.
RECURSIVE BagRecords(_, _, _)
BagRecords(st, bag, titles) ==
  IF titles = <<>> THEN <<>>
  ELSE readDocs(st, bag, Head(titles)) \o BagRecords(st, bag, Tail(titles))

TitleOrder == <<"X", "Y">>

\* TiddlerPersistence.readCollections(namespaces): the records of the given
\* bags, bag after bag in the order given.
RECURSIVE readCollections(_, _)
readCollections(st, bags) ==
  IF bags = <<>> THEN <<>>
  ELSE BagRecords(st, Head(bags), TitleOrder) \o readCollections(st, Tail(bags))

\* An updater's answer: a next value, absence (deletion), or a thrown error.
UpdaterValue(value) == [status |-> "ok", present |-> TRUE, value |-> value]
UpdaterAbsent == [status |-> "ok", present |-> FALSE, value |-> EmptyFields]
UpdaterThrows(kind) == [status |-> kind, present |-> FALSE, value |-> EmptyFields]

\* TiddlerPersistence.updateDoc(namespace, title, updater, expectedRevision):
\* the compare-and-swap.  The updater is run on the current value (or its
\* absence); its failure is the failure of the call.  At commit a supplied
\* expected revision that differs from the stored one is a Conflict.  The
\* answer is the new record when the updater yields a value and nothing
\* when it yields absence; `yields` is whether Persistence hands the record
\* back at all.
updateDoc(st, rev, bag, title, updated, expectedRevision, yields) ==
  LET cur == st[bag][title] IN
  IF updated.status # "ok"
    THEN [status |-> updated.status, store |-> st, recs |-> <<>>, committed |-> FALSE]
  ELSE IF expectedRevision # NoRev /\ cur.revision # expectedRevision
    THEN [status |-> "Conflict", store |-> st, recs |-> <<>>, committed |-> FALSE]
  ELSE IF updated.present
    THEN [status |-> "ok",
          store |-> [st EXCEPT ![bag][title] = Doc(updated.value, rev)],
          recs |-> IF yields THEN <<Rec(bag, title, updated.value, rev)>> ELSE <<>>,
          committed |-> TRUE]
  ELSE [status |-> "ok",
        store |-> [st EXCEPT ![bag][title] = NoDoc],
        recs |-> <<>>,
        committed |-> TRUE]

\* PolicyChecker answer for one bag: {bag, allowed, reason?}.
Permission(bag, allowed) ==
  [bag |-> bag, allowed |-> allowed, reason |-> IF allowed THEN "" ELSE "denied:" \o bag]

\* PolicyChecker.verifyReadAccess / getWriteableBag / verifyRemoveAccess:
\* the possible answers for a bag list, parallel to it.
PolicyAnswers(bags) ==
  { [i \in 1..Len(bags) |-> Permission(bags[i], a[i])] : a \in [1..Len(bags) -> BOOLEAN] }

\* RecipeResolver.getRecipeBags: undefined, or an ordered bag list.
Resolution(found, bags) == [found |-> found, bags |-> bags]
Resolutions ==
  { Resolution(FALSE, <<>>), Resolution(TRUE, <<>>), Resolution(TRUE, <<"A">>),
    Resolution(TRUE, <<"A", "B">>), Resolution(TRUE, <<"B", "A">>) }

(* -------------------------- private helpers --------------------------- *)

\* deduplicate (lines 40-67): encounteredTitles is consulted and never
\* added to, so it stays empty through the loop.
RECURSIVE deduplicateFrom(_, _)
deduplicateFrom(tiddlers, encounteredTitles) ==
  IF tiddlers = <<>> THEN <<>>
  ELSE IF Head(tiddlers).title \in encounteredTitles
    THEN deduplicateFrom(Tail(tiddlers), encounteredTitles)
    ELSE <<Head(tiddlers)>> \o deduplicateFrom(Tail(tiddlers), encounteredTitles)

deduplicate(tiddlers) == deduplicateFrom(tiddlers, {})

\* A find that keeps the last match instead of the first.
RECURSIVE getFirst_lastMatch(_, _)
getFirst_lastMatch(tiddlers, title) ==
  IF tiddlers = <<>> THEN <<>>
  ELSE IF getFirst_lastMatch(Tail(tiddlers), title) # <<>>
    THEN getFirst_lastMatch(Tail(tiddlers), title)
  ELSE IF Head(tiddlers).title = title THEN <<Head(tiddlers)>>
  ELSE <<>>

\* getFirst (lines 69-86): Array.prototype.find, as a list of 0 or 1 record.
RECURSIVE getFirst(_, _)
getFirst(tiddlers, title) ==
  IF tiddlers = <<>> THEN <<>>
  ELSE IF Head(tiddlers).title = title THEN <<Head(tiddlers)>>
  ELSE getFirst(Tail(tiddlers), title)

\* An assignment that keeps the update's fields alone.
ObjectAssign_replace(existing, update) == update

\* Object.assign({}, existingTiddler, update) (line 102).
ObjectAssign(existing, update) ==
  [f \in FieldNames |-> IF update[f] # NoField THEN update[f] ELSE existing[f]]

\* An updater that merges an update onto nothing when no document exists.
getUpdater_upsert(title, updateOrCreate, existing) ==
  IF updateOrCreate.kind = "update"
    THEN UpdaterValue(ObjectAssign(existing.value, updateOrCreate.fields))
    ELSE UpdaterValue(createTiddler(title, updateOrCreate.type, updateOrCreate.fields))

\* An updater whose create lays the factory's document over the existing one.
getUpdater_createMerges(title, updateOrCreate, existing) ==
  IF updateOrCreate.kind = "update"
    THEN IF ~existing.exists
           THEN UpdaterThrows("BadRequest")
           ELSE UpdaterValue(ObjectAssign(existing.value, updateOrCreate.fields))
    ELSE UpdaterValue(ObjectAssign(existing.value,
           createTiddler(title, updateOrCreate.type, updateOrCreate.fields)))

\* getUpdater (lines 88-113), applied to the stored slot.
getUpdater(title, updateOrCreate, existing) ==
  IF updateOrCreate.kind = "update"
    THEN IF ~existing.exists
           THEN UpdaterThrows("BadRequest")
           ELSE UpdaterValue(ObjectAssign(existing.value, updateOrCreate.fields))
    ELSE UpdaterValue(createTiddler(title, updateOrCreate.type, updateOrCreate.fields))

(* ------------------------------ call state ---------------------------- *)

\* What a call returned or threw.  `recs` are the records returned (`single`
\* tells a record from a list; an empty `recs` with `single` is undefined),
\* `existed` the boolean removeFromBag returns, `reasons` the reasons joined
\* into the error message, `what` the thing the message says is missing.
Result(status, single, recs, existed, reasons, what) ==
  [status |-> status, single |-> single, recs |-> recs, existed |-> existed,
   reasons |-> reasons, what |-> what]

NoResult == Result("none", FALSE, <<>>, FALSE, <<>>, "")

Returned(single, recs) == Result("ok", single, recs, FALSE, <<>>, "")

Thrown(status, reasons, what) == Result(status, FALSE, <<>>, FALSE, reasons, what)

(* ---------------------------- bound adapter --------------------------- *)

\* What a BoundTiddlerStoreImpl method returned or threw: `items` are the
\* {bag, tiddler, revision} triples, `single` tells one triple from a list.
Bound(status, single, items) == [status |-> status, single |-> single, items |-> items]

NoBound == Bound("none", FALSE, <<>>)

\* A triple that loses the record's revision.
asBoundTiddler_noRevision(namespacedTiddler) ==
  [bag |-> namespacedTiddler.bag, tiddler |-> namespacedTiddler.value,
   revision |-> NoRev]

\* asBoundTiddler (lines 369-375).
asBoundTiddler(namespacedTiddler) ==
  [bag |-> namespacedTiddler.bag, tiddler |-> namespacedTiddler.value,
   revision |-> namespacedTiddler.revision]

\* shared/util/map mapOrApply(fn, x): fn(x) for one value, x.map(fn) for a
\* list; fn is given as a function over the records at hand.
mapOrApply(fn, single, recs) ==
  Bound("ok", single, [i \in 1..Len(recs) |-> fn[recs[i]]])

\* BoundTiddlerStoreImpl (lines 388-457) over the facade's result: reads go
\* through mapOrApply, writes through asBoundTiddler (which throws a
\* TypeError on undefined), removeFromBag hands the boolean on, and an
\* error of the facade is the adapter's error.
BoundReturn(op, result) ==
  IF result.status # "ok" THEN Bound(result.status, FALSE, <<>>)
  ELSE IF op \in {"readFromBag", "readFromRecipe"}
    THEN mapOrApply([r \in {result.recs[i] : i \in 1..Len(result.recs)} |->
                       asBoundTiddler(r)],
                    result.single, result.recs)
  ELSE IF op \in {"writeToBag", "writeToRecipe"}
    THEN IF result.recs = <<>>
           THEN Bound("TypeError", FALSE, <<>>)
           ELSE Bound("ok", TRUE, <<asBoundTiddler(result.recs[1])>>)
  ELSE Bound("ok", FALSE, <<>>)

InitStore ==
  [b \in Bags |-> [t \in Titles |->
     IF b = "A" /\ t = "X" THEN Doc([type |-> "base", text |-> "a", tags |-> NoField], 1)
     ELSE IF b = "B" /\ t = "X" THEN Doc([type |-> "base", text |-> "b", tags |-> NoField], 2)
     ELSE IF b = "B" /\ t = "Y" THEN Doc([type |-> "base", text |-> "b", tags |-> NoField], 3)
     ELSE NoDoc]]

\* A client that is in no call.  `bags`/`found` is the resolver's answer,
\* `perms` the policy checker's, `bagToWrite` the bag a recipe write chose,
\* `tiddlerExisted` removeFromBag's local.  `snap` is the store as it was when
\* the call reached Persistence, `cas` whether it issued updateDoc,
\* `startRev` the revision its target held when the call was made, `tx` the
\* number of runTransaction invocations, `scope` the state of the
\* transaction callback and `resolves` the number of getRecipeBags
\* invocations (all history, read by no action).  `bound` is what the bound
\* adapter makes of the result.
Idle ==
  [op |-> "none", pc |-> "idle", bag |-> "", title |-> NoTitle, intent |-> NoIntent,
   expectedRevision |-> NoRev, found |-> FALSE, bags |-> <<>>, perms |-> <<>>,
   bagToWrite |-> "", tiddlerExisted |-> FALSE, snap |-> InitStore, cas |-> FALSE,
   startRev |-> NoRev, tx |-> 0, scope |-> "none", resolves |-> 0,
   result |-> NoResult, bound |-> NoBound]

Init ==
  /\ store = InitStore
  /\ nextRev = 4
  /\ calls = [p \in Procs |-> Idle]
  /\ ncalls = 0

(* ------------------------------ the inputs ---------------------------- *)

\* The revisions a client can hold for a title: none, or one it read.
ExpectedChoices(title) == {NoRev} \cup {store[b][title].revision : b \in Bags}

\* TiddlerUpdateOrCreate values client p sends for a title.
Intents(p, title) ==
  { UpdateIntent([EmptyFields EXCEPT ![f] = ValOf(p)], e) :
      f \in {"text", "tags"}, e \in ExpectedChoices(title) }
  \cup { CreateIntent("note", [EmptyFields EXCEPT !["text"] = ValOf(p)]) }

CanCall(p) == calls[p].pc \in {"idle", "done"} /\ ncalls < MaxCalls

\* lines 134, 172, 237, 279, 333: transactionRunner.runTransaction(user, fn),
\* the first thing every method does; fn runs until it returns or throws.
runTransaction(c) == [c EXCEPT !.tx = c.tx + 1, !.scope = "open"]

Started(p, call) ==
  /\ calls' = [calls EXCEPT ![p] = runTransaction(call)]
  /\ ncalls' = ncalls + 1
  /\ UNCHANGED <<store, nextRev>>

At(p, op, pc) == calls[p].op = op /\ calls[p].pc = pc

\* A method that runs its transaction a second time after a Conflict.
Finish_retrying(c, result) ==
  IF result.status = "Conflict" /\ c.tx < 2
    THEN runTransaction([c EXCEPT !.pc = IF c.op \in {"readFromRecipe", "writeToRecipe"}
                                           THEN "resolve" ELSE "check"])
    ELSE [c EXCEPT !.pc = "done", !.result = result, !.scope = "closed",
                   !.bound = BoundReturn(c.op, result)]

\* The call ends with `result`: the callback has returned or thrown, which
\* ends the transaction, and the method returns or throws in turn.
Finish(c, result) ==
  [c EXCEPT !.pc = "done", !.result = result, !.scope = "closed",
            !.bound = BoundReturn(c.op, result)]

\* lines 175-180, 282-287: `const bags = await getRecipeBags(...)`.
getRecipeBags(c, r) ==
  [c EXCEPT !.found = r.found, !.bags = r.bags, !.resolves = c.resolves + 1]

\* A read over the bag list of a second resolution, made after the recipe
\* was changed to [B, A].
ReadBags_resolvedAgain(c) == <<"B", "A">>

\* line 208: the bags whose collections are read, `bags.map(...)`.
ReadBags(c) == c.bags

(* ------------------------------ readFromBag --------------------------- *)

\* A permission test that lets every answer through.
FirstAllowed_always(perms) == TRUE

\* lines 143, 248, 342: `permission[0].allowed` of a single-bag operation.
FirstAllowed(perms) == perms[1].allowed

\* A result that unpacks the list whether or not a title was given.
readFromBagResult_alwaysUnpacks(title, tiddlers) ==
  IF Len(tiddlers) < 1
    THEN Thrown("NotFound", <<>>, "tiddler")
    ELSE Returned(TRUE, <<tiddlers[1]>>)

\* lines 147-157: the record asked for or NotFound, or the whole list.
readFromBagResult(title, tiddlers) ==
  IF title # NoTitle
    THEN IF Len(tiddlers) < 1
           THEN Thrown("NotFound", <<>>, "tiddler")
           ELSE Returned(TRUE, <<tiddlers[1]>>)
    ELSE Returned(FALSE, tiddlers)

\* lines 129-141: the call, up to `await verifyReadAccess`.
readFromBag_call(p) ==
  /\ CanCall(p)
  /\ \E bag \in Bags, title \in Titles \cup {NoTitle} :
    Started(p, [Idle EXCEPT !.op = "readFromBag", !.pc = "check",
                          !.bag = bag, !.title = title])

\* lines 137-146, 159-162: the policy answer; denied throws Forbidden.
readFromBag_check(p) ==
  /\ At(p, "readFromBag", "check")
  /\ \E perms \in PolicyAnswers(<<calls[p].bag>>) :
       LET c == [calls[p] EXCEPT !.perms = perms] IN
       calls' = [calls EXCEPT ![p] =
         IF FirstAllowed(perms)
           THEN [c EXCEPT !.pc = "io"]
           ELSE Finish(c, Thrown("Forbidden", <<perms[1].reason>>, "read"))]
  /\ UNCHANGED <<store, nextRev, ncalls>>

\* lines 144-157: the answer of readDocs / readCollections.
readFromBag_io(p) ==
  /\ At(p, "readFromBag", "io")
  /\ LET c == [calls[p] EXCEPT !.snap = store]
         tiddlers == IF c.title # NoTitle
                       THEN readDocs(store, c.bag, c.title)
                       ELSE readCollections(store, <<c.bag>>)
     IN calls' = [calls EXCEPT ![p] = Finish(c, readFromBagResult(c.title, tiddlers))]
  /\ UNCHANGED <<store, nextRev, ncalls>>

(* ----------------------------- readFromRecipe ------------------------- *)

\* line 181, 288: `!bags`.
RecipeMissing(found, bags) == ~found

\* line 193: readPermissions.every((p) => p.allowed).
RECURSIVE EveryAllowed(_)
EveryAllowed(perms) ==
  IF perms = <<>> THEN TRUE ELSE Head(perms).allowed /\ EveryAllowed(Tail(perms))

\* A message that reports the first entry's reason only.
Reasons_firstOnly(perms) ==
  IF perms = <<>> \/ Head(perms).reason = "" THEN <<>> ELSE <<Head(perms).reason>>

\* lines 200-203, 308-311: the truthy reasons, in order.
RECURSIVE Reasons(_)
Reasons(perms) ==
  IF perms = <<>> THEN <<>>
  ELSE (IF Head(perms).reason # "" THEN <<Head(perms).reason>> ELSE <<>>)
       \o Reasons(Tail(perms))

\* lines 193-205: the error thrown when some bag is not readable.
ReadDenied(perms) == Thrown("NotFound", Reasons(perms), "readable bag")

\* lines 167-180: the call, up to `await getRecipeBags`.
readFromRecipe_call(p) ==
  /\ CanCall(p)
  /\ \E title \in Titles \cup {NoTitle} :
    Started(p, [Idle EXCEPT !.op = "readFromRecipe", !.pc = "resolve", !.title = title])

\* lines 175-192: the resolver's answer.
readFromRecipe_resolve(p) ==
  /\ At(p, "readFromRecipe", "resolve")
  /\ \E r \in Resolutions :
       LET c == getRecipeBags(calls[p], r) IN
       calls' = [calls EXCEPT ![p] =
         IF RecipeMissing(r.found, r.bags)
           THEN Finish(c, Thrown("NotFound", <<>>, "recipe"))
           ELSE [c EXCEPT !.pc = "check"]]
  /\ UNCHANGED <<store, nextRev, ncalls>>

\* lines 187-209: the policy answer.
readFromRecipe_check(p) ==
  /\ At(p, "readFromRecipe", "check")
  /\ \E perms \in PolicyAnswers(calls[p].bags) :
       LET c == [calls[p] EXCEPT !.perms = perms] IN
       calls' = [calls EXCEPT ![p] =
         IF ~EveryAllowed(perms)
           THEN Finish(c, ReadDenied(perms))
           ELSE [c EXCEPT !.pc = "io"]]
  /\ UNCHANGED <<store, nextRev, ncalls>>

\* lines 207-221: the answer of readCollections.
readFromRecipe_io(p) ==
  /\ At(p, "readFromRecipe", "io")
  /\ LET c == [calls[p] EXCEPT !.snap = store]
         tiddlers == readCollections(store, ReadBags(c))
         tiddler == getFirst(tiddlers, c.title)
     IN calls' = [calls EXCEPT ![p] =
          IF c.title # NoTitle
            THEN IF tiddler = <<>>
                   THEN Finish(c, Thrown("NotFound", <<>>, "tiddler"))
                   ELSE Finish(c, Returned(TRUE, tiddler))
            ELSE Finish(c, Returned(FALSE, deduplicate(tiddlers)))]
  /\ UNCHANGED <<store, nextRev, ncalls>>

(* ------------------------------- writeToBag --------------------------- *)

\* An updateDoc call that leaves the expected revision out.
ExpectedRevisionArg_omitted(updateOrCreate) == NoRev

\* lines 253, 319: the expected revision handed to updateDoc.
ExpectedRevisionArg(updateOrCreate) == getExpectedRevision(updateOrCreate)

\* lines 262-265: a transaction result that is not a record is an error.
writeToBagResult(txResult) ==
  IF txResult = <<>>
    THEN Thrown("InternalError", <<>>, "result of write transaction")
    ELSE Returned(TRUE, txResult)

\* lines 226-247: the call, up to `await getWriteableBag`.
writeToBag_call(p) ==
  /\ CanCall(p)
  /\ \E bag \in Bags, title \in Titles :
      \E intent \in Intents(p, title) :
        Started(p, [Idle EXCEPT !.op = "writeToBag", !.pc = "check", !.bag = bag,
                                !.title = title, !.intent = intent,
                                !.startRev = store[bag][title].revision])

\* lines 240-259: the policy answer; denied throws Forbidden.
writeToBag_check(p) ==
  /\ At(p, "writeToBag", "check")
  /\ \E perms \in PolicyAnswers(<<calls[p].bag>>) :
       LET c == [calls[p] EXCEPT !.perms = perms] IN
       calls' = [calls EXCEPT ![p] =
         IF FirstAllowed(perms)
           THEN [c EXCEPT !.pc = "io"]
           ELSE Finish(c, Thrown("Forbidden", <<perms[1].reason>>, "write"))]
  /\ UNCHANGED <<store, nextRev, ncalls>>

\* lines 249-265: updateDoc, the end of the transaction and the null check.
writeToBag_io(p, yieldChoices) ==
  /\ At(p, "writeToBag", "io")
  /\ \E yields \in yieldChoices :
       LET c == [calls[p] EXCEPT !.snap = store, !.cas = TRUE]
           r == updateDoc(store, nextRev, c.bag, c.title,
                          getUpdater(c.title, c.intent, store[c.bag][c.title]),
                          ExpectedRevisionArg(c.intent), yields)
       IN /\ store' = r.store
          /\ nextRev' = IF r.committed THEN nextRev + 1 ELSE nextRev
          /\ calls' = [calls EXCEPT ![p] =
               IF r.status # "ok"
                 THEN Finish(c, Thrown(r.status, <<>>, "tiddler"))
                 ELSE Finish(c, writeToBagResult(r.recs))]
  /\ UNCHANGED ncalls

(* ------------------------------ writeToRecipe ------------------------- *)

\* A find that keeps the last allowed entry instead of the first.
RECURSIVE FindAllowed_last(_)
FindAllowed_last(perms) ==
  IF perms = <<>> THEN <<>>
  ELSE IF FindAllowed_last(Tail(perms)) # <<>> THEN FindAllowed_last(Tail(perms))
  ELSE IF Head(perms).allowed THEN <<Head(perms)>>
  ELSE <<>>

\* line 303: permissions.find((p) => p.allowed === true), as 0 or 1 entry.
RECURSIVE FindAllowed(_)
FindAllowed(perms) ==
  IF perms = <<>> THEN <<>>
  ELSE IF Head(perms).allowed THEN <<Head(perms)>>
  ELSE FindAllowed(Tail(perms))

\* line 323: `txResult!` is returned as it is.
writeToRecipeResult(txResult) == Returned(TRUE, txResult)

\* lines 268-287: the call, up to `await getRecipeBags`.
writeToRecipe_call(p) ==
  /\ CanCall(p)
  /\ \E title \in Titles :
      \E intent \in Intents(p, title) :
        Started(p, [Idle EXCEPT !.op = "writeToRecipe", !.pc = "resolve",
                            !.title = title, !.intent = intent])

\* lines 282-302: the resolver's answer.
writeToRecipe_resolve(p) ==
  /\ At(p, "writeToRecipe", "resolve")
  /\ \E r \in Resolutions :
       LET c == getRecipeBags(calls[p], r) IN
       calls' = [calls EXCEPT ![p] =
         IF RecipeMissing(r.found, r.bags)
           THEN Finish(c, Thrown("NotFound", <<>>, "recipe"))
           ELSE [c EXCEPT !.pc = "check"]]
  /\ UNCHANGED <<store, nextRev, ncalls>>

\* lines 295-320: the policy answer and the choice of the bag to write.
writeToRecipe_check(p) ==
  /\ At(p, "writeToRecipe", "check")
  /\ \E perms \in PolicyAnswers(calls[p].bags) :
       LET c == [calls[p] EXCEPT !.perms = perms]
           bagToWrite == FindAllowed(perms)
       IN calls' = [calls EXCEPT ![p] =
            IF bagToWrite = <<>>
              THEN Finish(c, Thrown("Forbidden", Reasons(perms), "writable bag"))
              ELSE [c EXCEPT !.pc = "io", !.bagToWrite = bagToWrite[1].bag]]
  /\ UNCHANGED <<store, nextRev, ncalls>>

\* A write addressed to the first bag of the recipe, allowed or not.
WrittenBag_firstListed(c) == c.bags[1]

\* line 316: `bag: bagToWrite.bag`, the bag updateDoc is addressed to.
WrittenBag(c) == c.bagToWrite

\* lines 315-323: updateDoc, the end of the transaction and the return.
writeToRecipe_io(p, yieldChoices) ==
  /\ At(p, "writeToRecipe", "io")
  /\ \E yields \in yieldChoices :
       LET c == [calls[p] EXCEPT !.snap = store, !.cas = TRUE]
           r == updateDoc(store, nextRev, WrittenBag(c), c.title,
                          getUpdater(c.title, c.intent, store[WrittenBag(c)][c.title]),
                          ExpectedRevisionArg(c.intent), yields)
       IN /\ store' = r.store
          /\ nextRev' = IF r.committed THEN nextRev + 1 ELSE nextRev
          /\ calls' = [calls EXCEPT ![p] =
               IF r.status # "ok"
                 THEN Finish(c, Thrown(r.status, <<>>, "tiddler"))
                 ELSE Finish(c, writeToRecipeResult(r.recs))]
  /\ UNCHANGED ncalls

(* ------------------------------ removeFromBag ------------------------- *)

\* lines 343-348: the updater of a removal resolves to no value ...
removeUpdater(existing) == UpdaterAbsent

\* ... and assigns `tiddler !== undefined` to tiddlerExisted (line 346).

\* An updater that reports a prior value whatever it was given.
removeObserved_always(existing) == TRUE

removeObserved(existing) == existing.exists

\* lines 326-341: the call, up to `await verifyRemoveAccess`.
removeFromBag_call(p) ==
  /\ CanCall(p)
  /\ \E bag \in Bags, title \in Titles :
      \E expected \in {NoRev, store[bag][title].revision} :
        Started(p, [Idle EXCEPT !.op = "removeFromBag", !.pc = "check", !.bag = bag,
                                !.title = title, !.expectedRevision = expected,
                                !.startRev = store[bag][title].revision])

\* lines 336-359: the policy answer; denied throws Forbidden.
removeFromBag_check(p) ==
  /\ At(p, "removeFromBag", "check")
  /\ \E perms \in PolicyAnswers(<<calls[p].bag>>) :
       LET c == [calls[p] EXCEPT !.perms = perms] IN
       calls' = [calls EXCEPT ![p] =
         IF FirstAllowed(perms)
           THEN [c EXCEPT !.pc = "io"]
           ELSE Finish(c, Thrown("Forbidden", <<perms[1].reason>>, "remove"))]
  /\ UNCHANGED <<store, nextRev, ncalls>>

\* lines 343-362: updateDoc with the removing updater, and the return.
removeFromBag_io(p) ==
  /\ At(p, "removeFromBag", "io")
  /\ LET cur == store[calls[p].bag][calls[p].title]
         c == [calls[p] EXCEPT !.snap = store, !.cas = TRUE,
                               !.tiddlerExisted = removeObserved(cur)]
         r == updateDoc(store, nextRev, c.bag, c.title, removeUpdater(cur),
                        c.expectedRevision, TRUE)
     IN /\ store' = r.store
        /\ nextRev' = nextRev
        /\ calls' = [calls EXCEPT ![p] =
             IF r.status # "ok"
               THEN Finish(c, Thrown(r.status, <<>>, "tiddler"))
               ELSE Finish(c, Result("ok", TRUE, <<>>, c.tiddlerExisted, <<>>, ""))]
  /\ UNCHANGED ncalls

(* --------------------------- the specifications ----------------------- *)

\* Persistence hands back the record of every value it commits.
AlwaysYields == {TRUE}

\* Persistence may commit and hand back nothing.
MayYieldNothing == {TRUE, FALSE}

Step(p, yieldChoices) ==
  \/ readFromBag_call(p)
  \/ readFromBag_check(p)
  \/ readFromBag_io(p)
  \/ readFromRecipe_call(p)
  \/ readFromRecipe_resolve(p)
  \/ readFromRecipe_check(p)
  \/ readFromRecipe_io(p)
  \/ writeToBag_call(p)
  \/ writeToBag_check(p)
  \/ writeToBag_io(p, yieldChoices)
  \/ writeToRecipe_call(p)
  \/ writeToRecipe_resolve(p)
  \/ writeToRecipe_check(p)
  \/ writeToRecipe_io(p, yieldChoices)
  \/ removeFromBag_call(p)
  \/ removeFromBag_check(p)
  \/ removeFromBag_io(p)

Next == \E p \in Procs : Step(p, AlwaysYields)

Spec == Init /\ [][Next]_vars

NextNoResult == \E p \in Procs : Step(p, MayYieldNothing)

SpecNoResult == Init /\ [][NextNoResult]_vars

(* ------------------------- notions the claims use --------------------- *)

Range(seq) == {seq[i] : i \in 1..Len(seq)}

\* The call of p has finished.
Done(p) == calls[p].pc = "done"

\* The call of p went past the recipe resolution.
Resolved(p) == calls[p].pc \in {"check", "io", "done"}

\* p's step that leaves `pc` of operation `op`.
Leaves(p, op, pc) == At(p, op, pc) /\ calls'[p].pc # pc

\* The bags of a resolution that hold `title` in store `st`, in order.
Holding(st, bags, title) == {i \in 1..Len(bags) : st[bags[i]][title].exists}

\* The record of `title` in the earliest bag of `bags` that holds it.
EarliestRecord(st, bags, title) ==
  LET i == CHOOSE k \in Holding(st, bags, title) :
             \A j \in Holding(st, bags, title) : k <= j
  IN Rec(bags[i], title, st[bags[i]][title].value, st[bags[i]][title].revision)

Allowed(perms) == {i \in 1..Len(perms) : perms[i].allowed}

Denied(perms) == {i \in 1..Len(perms) : ~perms[i].allowed}

\* The earliest allowed bag of a policy answer.
EarliestAllowedBag(perms) ==
  perms[CHOOSE k \in Allowed(perms) : \A j \in Allowed(perms) : k <= j].bag

\* A readFromRecipe call that read the store: recipe found, every bag readable.
RecipeRead(p) ==
  /\ calls[p].op = "readFromRecipe" /\ Done(p)
  /\ calls[p].found /\ EveryAllowed(calls[p].perms)

(* --------------------------------- C1 --------------------------------- *)

\* C1: readFromRecipe without a title, over readable bags, returns at most
\* one record per title, and for every title some resolved bag holds, exactly
\* the record of the earliest bag that holds it.
C1_UntitledReadKeepsFirstPerTitle ==
  \A p \in Procs :
    (RecipeRead(p) /\ calls[p].title = NoTitle) =>
      LET c == calls[p]
          recs == c.result.recs
      IN /\ c.result.status = "ok"
         /\ \A i, j \in 1..Len(recs) : recs[i].title = recs[j].title => i = j
         /\ Range(recs) =
              {EarliestRecord(c.snap, c.bags, t) :
                 t \in {u \in Titles : Holding(c.snap, c.bags, u) # {}}}

(* --------------------------------- C2 --------------------------------- *)

\* Two writeToBag calls, both allowed, on the same (bag, title), both with
\* the update's expected revision e, which the document held when each call
\* was made and still held at the first of the two compare-and-swaps.
RacingWriters(p, q) ==
  /\ p # q
  /\ calls[p].op = "writeToBag" /\ calls[q].op = "writeToBag"
  /\ Done(p) /\ Done(q) /\ calls[p].cas /\ calls[q].cas
  /\ calls[p].bag = calls[q].bag /\ calls[p].title = calls[q].title
  /\ calls[p].intent.kind = "update" /\ calls[q].intent.kind = "update"
  /\ calls[p].intent.expectedRevision # NoRev
  /\ calls[q].intent.expectedRevision = calls[p].intent.expectedRevision
  /\ calls[p].startRev = calls[p].intent.expectedRevision
  /\ calls[q].startRev = calls[p].intent.expectedRevision
  /\ \E w \in {p, q} :
       calls[w].snap[calls[w].bag][calls[w].title].revision
         = calls[p].intent.expectedRevision

\* p committed its update and got the record; q failed with Conflict and the
\* stored document is p's merge onto the value p found.
WinsOver(p, q) ==
  LET c == calls[p]
      merged == ObjectAssign(c.snap[c.bag][c.title].value, c.intent.fields)
  IN /\ c.result.status = "ok" /\ Len(c.result.recs) = 1
     /\ c.result.recs[1].value = merged
     /\ calls[q].result.status = "Conflict"
     /\ store[c.bag][c.title] = Doc(merged, c.result.recs[1].revision)

\* C2: of two concurrent writeToBag calls with the same, initially matching
\* expected revision, exactly one commits and returns its record, the other
\* fails with Conflict, and the stored document is the winner's update alone.
C2_OneRacingWriterWins ==
  \A p, q \in Procs :
    RacingWriters(p, q) =>
      /\ WinsOver(p, q) \/ WinsOver(q, p)
      /\ ~(calls[p].result.status = "ok" /\ calls[q].result.status = "ok")

\* Both racing writers have finished, with updates of different fields.
C2_Witness ==
  \E p, q \in Procs :
    /\ RacingWriters(p, q)
    /\ calls[p].intent.fields # calls[q].intent.fields
    /\ calls[q].snap # calls[p].snap

(* --------------------------------- C3 --------------------------------- *)

\* C3: writeToRecipe issues its compare-and-swap against the earliest allowed
\* bag of the resolution: the step changes no other (bag, title), and the
\* record it returns names that bag and is the one stored there.
C3_RecipeWriteLandsInFirstAllowed ==
  [][\A p \in Procs :
       Leaves(p, "writeToRecipe", "io") =>
         LET c == calls[p]
             first == EarliestAllowedBag(c.perms)
             res == calls'[p].result
         IN /\ Allowed(c.perms) # {}
            /\ \A b \in Bags, t \in Titles :
                 store'[b][t] # store[b][t] => b = first /\ t = c.title
            /\ res.status = "ok" =>
                 /\ Len(res.recs) = 1
                 /\ res.recs[1].bag = first
                 /\ store'[first][c.title] = Doc(res.recs[1].value, res.recs[1].revision)]_vars

\* A recipe write over [A denied, B allowed] that committed in B.
C3_Witness ==
  \E p \in Procs :
    /\ calls[p].op = "writeToRecipe" /\ Done(p)
    /\ calls[p].bags = <<"A", "B">>
    /\ ~calls[p].perms[1].allowed /\ calls[p].perms[2].allowed
    /\ calls[p].result.status = "ok"
    /\ calls[p].result.recs[1].bag = "B"
    /\ store["B"][calls[p].title].revision = calls[p].result.recs[1].revision

(* --------------------------------- C4 --------------------------------- *)

\* C4: readFromRecipe fails with Forbidden, carrying the reason of every
\* denied bag and returning no record, as soon as one resolved bag is denied.
C4_RecipeReadDenialIsForbidden ==
  \A p \in Procs :
    (/\ calls[p].op = "readFromRecipe" /\ calls[p].found
     /\ Denied(calls[p].perms) # {}) =>
      /\ Done(p)
      /\ calls[p].result.status = "Forbidden"
      /\ calls[p].result.recs = <<>>
      /\ \A i \in Denied(calls[p].perms) :
           calls[p].perms[i].reason \in Range(calls[p].result.reasons)

(* --------------------------------- C5 --------------------------------- *)

\* C5: readFromRecipe with a title, over readable bags, returns the record of
\* the earliest resolved bag that holds the title, and fails with NotFound
\* (tiddler not found) when no resolved bag holds it.
C5_TitledReadReturnsFirstMatch ==
  \A p \in Procs :
    (RecipeRead(p) /\ calls[p].title # NoTitle) =>
      LET c == calls[p] IN
      IF Holding(c.snap, c.bags, c.title) # {}
        THEN /\ c.result.status = "ok" /\ c.result.single
             /\ c.result.recs = <<EarliestRecord(c.snap, c.bags, c.title)>>
        ELSE /\ c.result.status = "NotFound" /\ c.result.what = "tiddler"
             /\ c.result.recs = <<>>

\* A titled read of X over [A, B], both holding X with different values,
\* returned A's; another found no bag holding its title.
C5_Witness ==
  \E p, q \in Procs :
    /\ RecipeRead(p) /\ calls[p].title = "X" /\ calls[p].bags = <<"A", "B">>
    /\ calls[p].snap["A"]["X"].exists /\ calls[p].snap["B"]["X"].exists
    /\ calls[p].snap["A"]["X"].value # calls[p].snap["B"]["X"].value
    /\ calls[p].result.recs[1].bag = "A"
    /\ RecipeRead(q) /\ calls[q].title = "Y" /\ calls[q].bags = <<"A">>
    /\ calls[q].result.status = "NotFound"

(* --------------------------------- C6 --------------------------------- *)

\* C6: when the policy checker denies every resolved bag, writeToRecipe ends
\* at once with Forbidden, the message carries every denied bag's reason, no
\* updateDoc is issued and the store is as it was.
C6_AllDeniedRecipeWriteIsForbidden ==
  [][\A p \in Procs :
       (/\ Leaves(p, "writeToRecipe", "check")
        /\ calls'[p].perms # <<>>
        /\ Allowed(calls'[p].perms) = {}) =>
         /\ calls'[p].pc = "done"
         /\ calls'[p].result.status = "Forbidden"
         /\ calls'[p].result.recs = <<>>
         /\ \A i \in Denied(calls'[p].perms) :
              calls'[p].perms[i].reason \in Range(calls'[p].result.reasons)
         /\ ~calls'[p].cas
         /\ store' = store]_vars

\* A recipe write over two bags, both denied, ended Forbidden with two reasons.
C6_Witness ==
  \E p \in Procs :
    /\ calls[p].op = "writeToRecipe" /\ Done(p)
    /\ Len(calls[p].bags) = 2 /\ Denied(calls[p].perms) = {1, 2}
    /\ calls[p].result.status = "Forbidden"
    /\ Len(calls[p].result.reasons) = 2
    /\ store = InitStore

(* --------------------------------- C7 --------------------------------- *)

\* C7: once the resolver has answered with nothing or with an empty bag
\* list, a readFromRecipe or writeToRecipe call is over, with NotFound
\* (recipe not found), and has issued no updateDoc.
C7_EmptyOrAbsentResolutionIsNotFound ==
  \A p \in Procs :
    (/\ calls[p].op \in {"readFromRecipe", "writeToRecipe"}
     /\ Resolved(p)
     /\ (~calls[p].found \/ calls[p].bags = <<>>)) =>
      /\ Done(p)
      /\ calls[p].result.status = "NotFound"
      /\ calls[p].result.what = "recipe"
      /\ ~calls[p].cas

(* --------------------------------- C8 --------------------------------- *)

\* C8: no write returns successfully without a record: a transaction that
\* ends without error and without a record makes writeToBag and
\* writeToRecipe alike fail with the internal error.
C8_NoWriteReturnsNothing ==
  \A p \in Procs :
    (calls[p].op \in {"writeToBag", "writeToRecipe"} /\ Done(p)) =>
      /\ calls[p].result.status = "ok" => Len(calls[p].result.recs) = 1
      /\ calls[p].result.status \in
           {"ok", "NotFound", "Forbidden", "BadRequest", "Conflict", "InternalError"}

(* --------------------------------- C9 --------------------------------- *)

\* C9: a removeFromBag whose compare-and-swap commits returns true exactly
\* when the document existed right before the commit, and the document is
\* absent right after it.
C9_RemoveReportsPriorExistence ==
  [][\A p \in Procs :
       (Leaves(p, "removeFromBag", "io") /\ calls'[p].result.status = "ok") =>
         /\ calls'[p].result.existed = store[calls[p].bag][calls[p].title].exists
         /\ ~store'[calls[p].bag][calls[p].title].exists]_vars

\* One removal found a document and returned true, another found none and
\* returned false.
C9_Witness ==
  \E p, q \in Procs :
    /\ calls[p].op = "removeFromBag" /\ Done(p) /\ calls[p].result.status = "ok"
    /\ calls[p].snap[calls[p].bag][calls[p].title].exists
    /\ calls[p].result.existed
    /\ calls[q].op = "removeFromBag" /\ Done(q) /\ calls[q].result.status = "ok"
    /\ ~calls[q].snap[calls[q].bag][calls[q].title].exists
    /\ ~calls[q].result.existed

(* --------------------------------- C10 -------------------------------- *)

\* The bag a write call hands to updateDoc.
WriteTarget(c) == IF c.op = "writeToBag" THEN c.bag ELSE c.bagToWrite

\* C10: a writeToBag or writeToRecipe with an update intent that reaches
\* updateDoc while its (bag, title) holds no document fails with BadRequest
\* and leaves the store as it was.
C10_UpdateOfMissingIsBadRequest ==
  [][\A p \in Procs :
       (/\ Leaves(p, "writeToBag", "io") \/ Leaves(p, "writeToRecipe", "io")
        /\ calls[p].intent.kind = "update"
        /\ ~store[WriteTarget(calls[p])][calls[p].title].exists) =>
         /\ calls'[p].result.status = "BadRequest"
         /\ calls'[p].result.recs = <<>>
         /\ store' = store]_vars

\* A bag write and a recipe write each sent an update for a title their bag
\* did not hold (one with an expected revision, one without) and got
\* BadRequest.
C10_Witness ==
  \E p, q \in Procs :
    /\ calls[p].op = "writeToBag" /\ Done(p) /\ calls[p].cas
    /\ calls[p].intent.kind = "update" /\ calls[p].intent.expectedRevision # NoRev
    /\ ~calls[p].snap[calls[p].bag][calls[p].title].exists
    /\ calls[p].result.status = "BadRequest"
    /\ calls[q].op = "writeToRecipe" /\ Done(q) /\ calls[q].cas
    /\ calls[q].intent.kind = "update" /\ calls[q].intent.expectedRevision = NoRev
    /\ ~calls[q].snap[calls[q].bagToWrite][calls[q].title].exists
    /\ calls[q].result.status = "BadRequest"
    /\ store = InitStore

(* --------------------------------- C11 -------------------------------- *)

\* p's step that ends a writeToBag or writeToRecipe call at updateDoc.
WriteLands(p) == Leaves(p, "writeToBag", "io") \/ Leaves(p, "writeToRecipe", "io")

\* C11: a create that reaches updateDoc while its (bag, title) holds a
\* document succeeds whatever revision is stored, and the stored and the
\* returned value are exactly the factory's document for (title, type,
\* creation fields): no field of the previous document is left.
C11_CreateReplacesExisting ==
  [][\A p \in Procs :
       (/\ WriteLands(p)
        /\ calls[p].intent.kind = "create"
        /\ store[WriteTarget(calls[p])][calls[p].title].exists) =>
         LET c == calls[p]
             made == createTiddler(c.title, c.intent.type, c.intent.fields)
             res == calls'[p].result
         IN /\ res.status = "ok" /\ Len(res.recs) = 1
            /\ res.recs[1].value = made
            /\ store'[WriteTarget(c)][c.title].exists
            /\ store'[WriteTarget(c)][c.title].value = made
            /\ store'[WriteTarget(c)][c.title].revision
                 # store[WriteTarget(c)][c.title].revision]_vars

\* A create replaced a document that had a tags field; the new one has none.
C11_Witness ==
  \E p \in Procs :
    /\ calls[p].op \in {"writeToBag", "writeToRecipe"} /\ Done(p) /\ calls[p].cas
    /\ calls[p].intent.kind = "create"
    /\ calls[p].snap[WriteTarget(calls[p])][calls[p].title].exists
    /\ calls[p].snap[WriteTarget(calls[p])][calls[p].title].value["tags"] # NoField
    /\ calls[p].result.status = "ok"
    /\ store[WriteTarget(calls[p])][calls[p].title].value["tags"] = NoField

(* --------------------------------- C12 -------------------------------- *)

\* C12: an update that commits stores and returns a shallow merge: a field
\* the update names has the update's value, every other field has the value
\* the document had right before the commit.
C12_UpdateIsShallowMerge ==
  [][\A p \in Procs :
       (/\ WriteLands(p)
        /\ calls[p].intent.kind = "update"
        /\ calls'[p].result.status = "ok") =>
         LET c == calls[p]
             before == store[WriteTarget(c)][c.title]
             after == store'[WriteTarget(c)][c.title]
         IN /\ before.exists /\ after.exists
            /\ Len(calls'[p].result.recs) = 1
            /\ calls'[p].result.recs[1].value = after.value
            /\ \A f \in FieldNames :
                 after.value[f] = IF c.intent.fields[f] # NoField
                                    THEN c.intent.fields[f]
                                    ELSE before.value[f]]_vars

\* An update of tags committed on a document that had a text and no tags:
\* the stored document has the old text and the new tags.
C12_Witness ==
  \E p \in Procs :
    LET c == calls[p]
        before == c.snap[WriteTarget(c)][c.title]
    IN /\ c.op \in {"writeToBag", "writeToRecipe"} /\ Done(p) /\ c.cas
       /\ c.intent.kind = "update" /\ c.intent.fields["tags"] # NoField
       /\ c.result.status = "ok"
       /\ before.value["text"] # NoField /\ before.value["tags"] = NoField
       /\ store[WriteTarget(c)][c.title].value["text"] = before.value["text"]
       /\ store[WriteTarget(c)][c.title].value["tags"] = c.intent.fields["tags"]

(* --------------------------------- C13 -------------------------------- *)

\* p's step that takes the policy answer of a single-bag operation.
BagCheck(p) ==
  \/ Leaves(p, "readFromBag", "check")
  \/ Leaves(p, "writeToBag", "check")
  \/ Leaves(p, "removeFromBag", "check")

\* C13: when the policy checker denies the bag of readFromBag, writeToBag or
\* removeFromBag, the call ends there with Forbidden and the checker's
\* reason: it never reaches Persistence (no read, no updateDoc) and the
\* store is as it was.
C13_DeniedBagOperationIsForbidden ==
  [][\A p \in Procs :
       (BagCheck(p) /\ ~calls'[p].perms[1].allowed) =>
         /\ calls'[p].pc = "done"
         /\ calls'[p].result.status = "Forbidden"
         /\ calls'[p].result.reasons = <<calls'[p].perms[1].reason>>
         /\ calls'[p].result.recs = <<>>
         /\ ~calls'[p].cas
         /\ calls'[p].snap = calls[p].snap
         /\ store' = store]_vars

\* A denied read and a denied write or removal both ended Forbidden.
C13_Witness ==
  \E p, q \in Procs :
    /\ calls[p].op = "readFromBag" /\ Done(p) /\ ~calls[p].perms[1].allowed
    /\ calls[p].result.status = "Forbidden"
    /\ calls[q].op \in {"writeToBag", "removeFromBag"} /\ Done(q)
    /\ ~calls[q].perms[1].allowed
    /\ calls[q].result.status = "Forbidden"
    /\ calls[q].result.reasons = <<"denied:" \o calls[q].bag>>
    /\ store = InitStore

(* --------------------------------- C14 -------------------------------- *)

\* The records bag `bag` holds in store `st`.
RecordsOf(st, bag) ==
  {Rec(bag, t, st[bag][t].value, st[bag][t].revision) :
     t \in {u \in Titles : st[bag][u].exists}}

\* C14: an allowed readFromBag with a title returns that title's record, or
\* fails with NotFound when the bag does not hold it; without a title it
\* returns every record of the bag, once each, and succeeds even for an
\* empty bag.
C14_BagReadResults ==
  \A p \in Procs :
    (/\ calls[p].op = "readFromBag" /\ Done(p)
     /\ calls[p].perms[1].allowed) =>
      LET c == calls[p] IN
      IF c.title # NoTitle
        THEN IF c.snap[c.bag][c.title].exists
               THEN /\ c.result.status = "ok" /\ c.result.single
                    /\ c.result.recs =
                         <<Rec(c.bag, c.title, c.snap[c.bag][c.title].value,
                               c.snap[c.bag][c.title].revision)>>
               ELSE /\ c.result.status = "NotFound" /\ c.result.what = "tiddler"
        ELSE /\ c.result.status = "ok" /\ ~c.result.single
             /\ Range(c.result.recs) = RecordsOf(c.snap, c.bag)
             /\ Len(c.result.recs) = Cardinality(RecordsOf(c.snap, c.bag))

\* An untitled read of a bag that had been emptied returned the empty list.
C14_Witness ==
  \E p \in Procs :
    /\ calls[p].op = "readFromBag" /\ Done(p) /\ calls[p].perms[1].allowed
    /\ calls[p].title = NoTitle
    /\ RecordsOf(calls[p].snap, calls[p].bag) = {}
    /\ calls[p].result.status = "ok" /\ calls[p].result.recs = <<>>

(* --------------------------------- C15 -------------------------------- *)

\* A read through the bound adapter that returned.
BoundRead(p) ==
  /\ calls[p].op \in {"readFromBag", "readFromRecipe"} /\ Done(p)
  /\ calls[p].bound.status = "ok"

\* C15: the adapter's readFromBag and readFromRecipe keep the shape of the
\* facade's result: a titled read yields exactly one triple, an untitled
\* read of n records yields n triples in the records' order, and the i-th
\* triple carries the bag of the i-th record with the value and revision
\* that bag held for the record's title.
C15_BoundReadKeepsShape ==
  \A p \in Procs :
    BoundRead(p) =>
      LET c == calls[p]
          recs == c.result.recs
          items == c.bound.items IN
      /\ c.result.status = "ok"
      /\ c.bound.single = c.result.single
      /\ c.bound.single = (c.title # NoTitle)
      /\ c.bound.single => Len(items) = 1
      /\ Len(items) = Len(recs)
      /\ \A i \in 1..Len(recs) :
           /\ DOMAIN items[i] = {"bag", "tiddler", "revision"}
           /\ items[i].bag = recs[i].bag
           /\ items[i].tiddler = recs[i].value
           /\ items[i].revision = recs[i].revision
           /\ items[i].tiddler = c.snap[recs[i].bag][recs[i].title].value
           /\ items[i].revision = c.snap[recs[i].bag][recs[i].title].revision

\* An untitled recipe read of three records came back as three triples, and
\* a titled read as one.
C15_Witness ==
  \E p, q \in Procs :
    /\ BoundRead(p) /\ calls[p].op = "readFromRecipe"
    /\ ~calls[p].bound.single /\ Len(calls[p].bound.items) = 3
    /\ calls[p].bound.items[1].bag = "A" /\ calls[p].bound.items[3].bag = "B"
    /\ calls[p].bound.items[3].revision # NoRev
    /\ BoundRead(q) /\ calls[q].bound.single /\ Len(calls[q].bound.items) = 1

(* --------------------------------- C16 -------------------------------- *)

\* C16: a writeToRecipe that succeeds changes no entry of the store other
\* than the one of its title in the bag it selected; every other title of
\* that bag and every entry of the other bags of the recipe are as before.
C16_RecipeWriteTouchesOneEntry ==
  [][\A p \in Procs :
       (Leaves(p, "writeToRecipe", "io") /\ calls'[p].result.status = "ok") =>
         /\ calls[p].bagToWrite \in Range(calls[p].bags)
         /\ \A b \in Bags : \A t \in Titles :
              (b # calls[p].bagToWrite \/ t # calls[p].title) =>
                store'[b][t] = store[b][t]]_vars

\* A write over a recipe of two bags, the first of them denied, changed the
\* title in the second bag and left the same title in the first bag alone.
C16_Witness ==
  \E p \in Procs :
    LET c == calls[p] IN
    /\ c.op = "writeToRecipe" /\ Done(p) /\ c.result.status = "ok"
    /\ Len(c.bags) = 2 /\ ~c.perms[1].allowed /\ c.bagToWrite = c.bags[2]
    /\ c.snap[c.bags[1]][c.title].exists
    /\ store[c.bagToWrite][c.title] # c.snap[c.bagToWrite][c.title]
    /\ \A b \in Bags : \A t \in Titles :
         (b # c.bagToWrite \/ t # c.title) => store[b][t] = c.snap[b][t]

(* --------------------------------- C17 -------------------------------- *)

Failures == {"Forbidden", "NotFound", "BadRequest", "Conflict"}

\* C17: every call of a facade method has invoked runTransaction exactly
\* once; while a resolver, policy or persistence call of it is still to
\* come, that one transaction is open; and once the call has ended, with a
\* value or with Forbidden, NotFound, BadRequest or Conflict, the
\* transaction is over and has not been run a second time.
C17_OneTransactionPerCall ==
  \A p \in Procs :
    LET c == calls[p] IN
    /\ c.op = "none" => c.tx = 0 /\ c.scope = "none"
    /\ c.op # "none" => c.tx = 1
    /\ c.pc \in {"resolve", "check", "io"} => c.scope = "open"
    /\ c.pc = "done" =>
         /\ c.scope = "closed"
         /\ c.result.status \in Failures \cup {"ok"}
         /\ c.cas => c.perms # <<>>
         /\ (c.op \in {"readFromRecipe", "writeToRecipe"}) = (c.resolves = 1)

\* A write ended with a Conflict after its single transaction while another
\* call was inside its own.
C17_Witness ==
  \E p, q \in Procs :
    /\ Done(p) /\ calls[p].result.status = "Conflict"
    /\ calls[p].tx = 1 /\ calls[p].scope = "closed"
    /\ calls[q].pc = "io" /\ calls[q].tx = 1 /\ calls[q].scope = "open"

(* --------------------------------- C18 -------------------------------- *)

\* The records the bags of `bags` hold in store `st`.
RecordsOfAll(st, bags) == UNION {RecordsOf(st, b) : b \in Range(bags)}

\* C18: a readFromRecipe or writeToRecipe call that got past the resolver
\* asked it exactly once; the policy answer it obtained is about exactly the
\* resolved bags, in their order; a recipe write is addressed to one of
\* them; and a recipe read returns records of those bags only: all of them
\* without a title, and with a title a record exactly when one of those
\* bags holds the title.
C18_OneResolutionPerCall ==
  \A p \in Procs :
    LET c == calls[p] IN
    (c.op \in {"readFromRecipe", "writeToRecipe"} /\ Resolved(p)) =>
      /\ c.resolves = 1
      /\ c.perms # <<>> =>
           /\ Len(c.perms) = Len(c.bags)
           /\ \A k \in 1..Len(c.bags) : c.perms[k].bag = c.bags[k]
      /\ (c.op = "writeToRecipe" /\ c.pc = "io") => c.bagToWrite \in Range(c.bags)
      /\ (c.op = "writeToRecipe" /\ c.cas) =>
           /\ c.bagToWrite \in Range(c.bags)
           /\ c.result.status = "ok" =>
                \A k \in 1..Len(c.result.recs) : c.result.recs[k].bag \in Range(c.bags)
      /\ (RecipeRead(p) /\ c.title = NoTitle) =>
           /\ c.result.status = "ok"
           /\ Range(c.result.recs) = RecordsOfAll(c.snap, c.bags)
      /\ (RecipeRead(p) /\ c.title # NoTitle) =>
           /\ (c.result.status = "ok") =
                (\E b \in Range(c.bags) : c.snap[b][c.title].exists)
           /\ c.result.status = "ok" => c.result.recs[1].bag \in Range(c.bags)

\* An untitled read of a recipe resolved to one bag returned that bag's
\* records only, although the other bag held documents too; and a recipe
\* write resolved to one bag landed there.
C18_Witness ==
  \E p, q \in Procs :
    /\ RecipeRead(p) /\ calls[p].title = NoTitle /\ calls[p].resolves = 1
    /\ Len(calls[p].bags) = 1
    /\ \E b \in Bags \ Range(calls[p].bags) : RecordsOf(calls[p].snap, b) # {}
    /\ calls[p].result.recs # <<>>
    /\ calls[q].op = "writeToRecipe" /\ Done(q) /\ calls[q].result.status = "ok"
    /\ calls[q].resolves = 1 /\ calls[q].bags = <<calls[q].bagToWrite>>

(* --------------------------------- C19 -------------------------------- *)

\* p read a title and q read everything, both allowed, over the same
\* resolution and the same store.
SameRecipeReads(p, q) ==
  /\ RecipeRead(p) /\ calls[p].title # NoTitle
  /\ RecipeRead(q) /\ calls[q].title = NoTitle
  /\ calls[p].bags = calls[q].bags
  /\ calls[p].snap = calls[q].snap

\* The places of the records titled `title` in `recs`.
Matching(recs, title) == {k \in 1..Len(recs) : recs[k].title = title}

\* C19: over the same store and resolution, readFromRecipe(T) succeeds
\* exactly when the untitled readFromRecipe() holds a record titled T, and
\* then the untitled result holds exactly one such record, the one the
\* titled read returned.
C19_TitledAndUntitledReadsAgree ==
  \A p, q \in Procs :
    SameRecipeReads(p, q) =>
      LET m == Matching(calls[q].result.recs, calls[p].title) IN
      /\ (calls[p].result.status = "ok") = (m # {})
      /\ calls[p].result.status = "ok" =>
           /\ Cardinality(m) = 1
           /\ \A k \in m : calls[q].result.recs[k] = calls[p].result.recs[1]

\* What the code does keep: the titled read succeeds exactly when the
\* untitled result holds the title, and returns the first such record.
TitledReadIsFirstOfUntitled ==
  \A p, q \in Procs :
    SameRecipeReads(p, q) =>
      LET m == Matching(calls[q].result.recs, calls[p].title) IN
      /\ (calls[p].result.status = "ok") = (m # {})
      /\ calls[p].result.status = "ok" =>
           calls[q].result.recs[CHOOSE k \in m : \A j \in m : k <= j]
             = calls[p].result.recs[1]

(* --------------------------------- C20 -------------------------------- *)

\* The call of p is an update that names the revision it expects.
GuardedUpdate(p) ==
  /\ calls[p].op \in {"writeToBag", "writeToRecipe"}
  /\ calls[p].intent.kind = "update"
  /\ calls[p].intent.expectedRevision # NoRev

\* The guarded update of q committed on top of the committed guarded update
\* of p: it expected the revision p's commit produced.
BuiltOn(q, p) ==
  /\ p # q /\ GuardedUpdate(p) /\ GuardedUpdate(q) /\ Done(p) /\ Done(q)
  /\ calls[p].result.status = "ok" /\ calls[q].result.status = "ok"
  /\ WriteTarget(calls[p]) = WriteTarget(calls[q])
  /\ calls[p].title = calls[q].title
  /\ calls[q].intent.expectedRevision = calls[p].result.recs[1].revision

\* The step of a guarded update at Persistence: it commits exactly when the
\* document carries the expected revision, and then every field is the
\* update's where the update names it and the document's otherwise; a stale
\* update fails and leaves the store as it was.
GuardedUpdateStep(p) ==
  LET c == calls[p]
      cur == store[WriteTarget(c)][c.title]
      new == store'[WriteTarget(c)][c.title]
  IN IF cur.revision = c.intent.expectedRevision
       THEN /\ calls'[p].result.status = "ok"
            /\ new.exists /\ new.revision \notin {cur.revision, NoRev}
            /\ \A f \in FieldNames :
                 new.value[f] = IF c.intent.fields[f] # NoField
                                  THEN c.intent.fields[f] ELSE cur.value[f]
            /\ calls'[p].result.recs =
                 <<Rec(WriteTarget(c), c.title, new.value, new.revision)>>
       ELSE /\ calls'[p].result.status \in {"Conflict", "BadRequest"}
            /\ store' = store

\* C20: no update is lost.  A guarded update commits only onto the
\* document value that carries the revision it expected, as a merge, and a
\* stale one changes nothing; so when one committed update was built on
\* another, the document it produced has the fields of both, the later
\* one's winning where both name the same field.
C20_NoLostUpdate ==
  /\ [][\A p \in Procs : (WriteLands(p) /\ GuardedUpdate(p)) => GuardedUpdateStep(p)]_vars
  /\ [](\A p, q \in Procs :
         BuiltOn(q, p) =>
           LET base == calls[p].snap[WriteTarget(calls[p])][calls[p].title].value IN
           /\ calls[q].snap[WriteTarget(calls[q])][calls[q].title].value
                = calls[p].result.recs[1].value
           /\ calls[q].result.recs[1].value
                = ObjectAssign(ObjectAssign(base, calls[p].intent.fields),
                               calls[q].intent.fields)
           /\ \A f \in FieldNames :
                (calls[p].intent.fields[f] # NoField /\ calls[q].intent.fields[f] = NoField)
                  => calls[q].result.recs[1].value[f] = calls[p].intent.fields[f])

\* Two updates of different fields committed one on top of the other and the
\* stored document has both fields.
C20_Witness ==
  \E p, q \in Procs :
    /\ BuiltOn(q, p)
    /\ calls[p].intent.fields["text"] = ValOf(p)
    /\ calls[q].intent.fields["tags"] = ValOf(q)
    /\ store[WriteTarget(calls[q])][calls[q].title].value["text"] = ValOf(p)
    /\ store[WriteTarget(calls[q])][calls[q].title].value["tags"] = ValOf(q)

=============================================================================
